---- MODULE Spec2Model ----
(***************************************************************************)
(* The two notebooks of the repository as a state machine:                 *)
(*   - entanglement.ipynb: main allocates 2 qubits and calls               *)
(*     create_bell_state (H on reg[0], CX on reg[0], reg[1]); the model is *)
(*     built, written, synthesized and shown;                              *)
(*   - classical variables and operations: main allocates 10 qubits and    *)
(*     repeats apply_condition over them; the model is built, synthesized, *)
(*     shown, executed, printed, then built again and written.             *)
(* A program is a record p; Spec runs the two notebooks as written,        *)
(* SpecGen runs the same statements with their literals drawn from small   *)
(* sets (register size, repeat count, condition, index offset, then-block, *)
(* shots).                                                                 *)
(***************************************************************************)
EXTENDS Integers, Sequences, FiniteSets, TLC

VARIABLES p, pc, pass, regLen, index, cnt, stmt, ops, subseqs, model,
          artifacts, qprog, psi, gp, shotsDone, counts, results, printed,
          raised, err, calls

vars == <<p, pc, pass, regLen, index, cnt, stmt, ops, subseqs, model,
          artifacts, qprog, psi, gp, shotsDone, counts, results, printed,
          raised, err, calls>>

(* ------------------------------------------------------------------ *)
(* Literals of the notebooks.                                          *)
(* ------------------------------------------------------------------ *)
BellQubits == 2
NumQubits == 10
NumShots == 2048

(* Bounds of the generalised family of programs.                       *)
MaxQubits == 3
MaxCount == 3
MaxMod == 2
MaxOff == 1
MaxShots == 2

NoModel == [built |-> FALSE, ops |-> <<>>, n |-> 0]
NoProgram == [ok |-> FALSE, gates |-> <<>>, n |-> 0]
NoResult == [ready |-> FALSE, counts |-> {}]
NoError == [kind |-> "None", detail |-> "None"]

(* The entanglement notebook. Only ex and n matter to it.              *)
BellNotebook ==
  [ex |-> "bell", n |-> BellQubits, cntLen |-> TRUE, cnt |-> 0, m |-> 1,
   r |-> 0, off |-> 0, then |-> <<"X">>, shots |-> 0]

(* The classical-variables notebook: allocate(10, x);                  *)
(* repeat(count=x.len, iteration = apply_condition(index, x[index]))   *)
(* with if_(index % 2 == 0, X(qubit)); 2048 shots.                     *)
ParityNotebook ==
  [ex |-> "parity", n |-> NumQubits, cntLen |-> TRUE, cnt |-> 0, m |-> 2,
   r |-> 0, off |-> 0, then |-> <<"X">>, shots |-> NumShots]

Notebooks == {BellNotebook, ParityNotebook}

(* The then-blocks tried: the notebook's X(qubit), and two others.      *)
ThenBlocks == {<<"X">>, <<"H">>, <<"H", "X">>}

(* The same two programs with their literals drawn from small sets.    *)
BellFamily ==
  {[ex |-> "bell", n |-> n, cntLen |-> TRUE, cnt |-> 0, m |-> 1, r |-> 0,
    off |-> 0, then |-> <<"X">>, shots |-> 0] : n \in 0..MaxQubits}

ParityFamily ==
  {[ex |-> "parity", n |-> n, cntLen |-> c[1], cnt |-> c[2], m |-> m,
    r |-> r, off |-> off, then |-> g, shots |-> s] :
     n \in 0..MaxQubits,
     c \in {<<TRUE, 0>>} \cup {<<FALSE, k>> : k \in 0..MaxCount},
     m \in 1..MaxMod, r \in 0..MaxMod, off \in (0 - 1)..MaxOff,
     g \in ThenBlocks, s \in 0..MaxShots}

Programs == Notebooks \cup BellFamily \cup ParityFamily

(* ------------------------------------------------------------------ *)
(* Operation records and the model builder.                            *)
(* ------------------------------------------------------------------ *)
Gate(g, qs) == [gate |-> g, q |-> qs]

(* Off by one: index len passes the check.                             *)
InRangeInclusive(i, len) == i >= 0 /\ i <= len

(* x[i] is a position of the register iff 0 <= i < len.                *)
InRange(i, len) == i >= 0 /\ i < len

AllInRange(qs, len) == \A k \in 1..Len(qs) : InRange(qs[k], len)

(* The two statements in the other order.                             *)
create_bell_state_swapped == <<Gate("CX", <<0, 1>>), Gate("H", <<0>>)>>

(* The body of create_bell_state: H(reg[0]); CX(reg[0], reg[1]).       *)
create_bell_state == <<Gate("H", <<0>>), Gate("CX", <<0, 1>>)>>

(* The condition negated: odd instead of even.                        *)
IfConditionNegated(prog, i) == i % prog.m # prog.r

(* index % 2 == 0, with the literals 2 and 0 taken from the program.   *)
IfCondition(prog, i) == i % prog.m = prog.r

(* The then-block included whatever the condition.                    *)
if_always(condition, then) == then

(* if_(condition, then): the then-block's operations when the          *)
(* condition holds, nothing otherwise.                                 *)
if_(condition, then) == IF condition THEN then ELSE <<>>

(* apply_condition(index, qubit): if_(index % 2 == 0, X(qubit)).       *)
apply_condition(prog, i, qubit) ==
  if_(IfCondition(prog, i),
      [k \in 1..Len(prog.then) |-> Gate(prog.then[k], <<qubit>>)])

(* The lambda handed to repeat: index -> (index, x[index]).            *)
IterationQubit(prog, i) == i + prog.off

(* count = x.len.                                                      *)
RepeatCount(prog, len) == IF prog.cntLen THEN len ELSE prog.cnt

(* One iteration too many.                                             *)
RepeatContinuesInclusive(i, count) == i <= count

(* repeat runs its iteration for index 0, 1, ... while index < count.  *)
RepeatContinues(i, count) == i < count

ArtifactName(prog) ==
  IF prog.ex = "bell" THEN "bell_state"
  ELSE "classical_variables_and_operations"

(* The exception swallowed: the failing statement is run again.        *)
OnRaiseRetry(at) == at

(* An exception raised in a cell that has no try/except leaves the     *)
(* cell: no later statement of it runs.                                *)
OnRaise(at) == "aborted"

(* ------------------------------------------------------------------ *)
(* The state of the register: a set of terms [b, a], b a basis state   *)
(* (qubit -> bit) and a its amplitude, nonzero, up to the common       *)
(* positive factor 1/sqrt(2) per Hadamard. A bit-string can be         *)
(* measured iff its basis state has a term.                            *)
(* ------------------------------------------------------------------ *)
ZeroState(n) == {[b |-> [k \in 0..(n - 1) |-> 0], a |-> 1]}

Amp(state, b) ==
  IF \E t \in state : t.b = b THEN (CHOOSE t \in state : t.b = b).a ELSE 0

SetBit(b, k, v) == [b EXCEPT ![k] = v]

Flip(b, k) == [b EXCEPT ![k] = 1 - @]

(* X inverts the qubit.                                                *)
ApplyX(state, k) == {[b |-> Flip(t.b, k), a |-> t.a] : t \in state}

(* H = 1/sqrt(2) [[1, 1], [1, -1]].                                    *)
ApplyH(state, k) ==
  LET cand == UNION {{SetBit(t.b, k, 0), SetBit(t.b, k, 1)} : t \in state}
      amp(b) == Amp(state, SetBit(b, k, 0))
                  + (IF b[k] = 1 THEN 0 - Amp(state, SetBit(b, k, 1))
                     ELSE Amp(state, SetBit(b, k, 1)))
  IN {[b |-> b, a |-> amp(b)] : b \in {c \in cand : amp(c) # 0}}

(* Control and target exchanged.                                       *)
ApplyCXSwapped(state, c, tg) ==
  {[b |-> IF t.b[tg] = 1 THEN Flip(t.b, c) ELSE t.b, a |-> t.a] : t \in state}

(* CNOT inverts the target iff the control is 1.                       *)
ApplyCX(state, c, tg) ==
  {[b |-> IF t.b[c] = 1 THEN Flip(t.b, tg) ELSE t.b, a |-> t.a] : t \in state}

ApplyGate(g, state) ==
  CASE g.gate = "X" -> ApplyX(state, g.q[1])
    [] g.gate = "H" -> ApplyH(state, g.q[1])
    [] g.gate = "CX" -> ApplyCX(state, g.q[1], g.q[2])

(* Read from left to right: character k from the left is qubit k.      *)
BitStringLeftToRight(b, n) == [j \in 1..n |-> b[j - 1]]

(* The measured bit-string: character k from the right is qubit k.     *)
BitString(b, n) == [j \in 1..n |-> b[n - j]]

Support(state, n) == {BitString(t.b, n) : t \in state}

(* A bit-string seen again is not counted again.                       *)
TallyOnce(cs, s) ==
  IF \E c \in cs : c.bits = s THEN cs ELSE cs \cup {[bits |-> s, n |-> 1]}

(* One shot measured as s is added to the counts.                      *)
Tally(cs, s) ==
  IF \E c \in cs : c.bits = s
    THEN {IF c.bits = s THEN [c EXCEPT !.n = @ + 1] ELSE c : c \in cs}
    ELSE cs \cup {[bits |-> s, n |-> 1]}

SynthesisFailures == {"rejected", "unavailable"}
ExecutionFailures == {"cannot_run", "unavailable"}

(* ------------------------------------------------------------------ *)
(* Initial state.                                                      *)
(* ------------------------------------------------------------------ *)
InitWith(progs) ==
  /\ p \in progs
  /\ pc = "main_allocate"
  /\ pass = 1
  /\ regLen = 0
  /\ index = 0
  /\ cnt = 0
  /\ stmt = 1
  /\ ops = <<>>
  /\ subseqs = <<>>
  /\ model = NoModel
  /\ artifacts = {}
  /\ qprog = NoProgram
  /\ psi = {}
  /\ gp = 1
  /\ shotsDone = 0
  /\ counts = {}
  /\ results = NoResult
  /\ printed = {}
  /\ raised = NoError
  /\ err = NoError
  /\ calls = [synth |-> 0, exec |-> 0]

Init == InitWith(Notebooks)

InitGen == InitWith(Programs)

(* ------------------------------------------------------------------ *)
(* create_model(main): the entry function runs once.                   *)
(* ------------------------------------------------------------------ *)
buildVars == <<regLen, index, cnt, stmt, ops, subseqs>>
execVars == <<qprog, psi, gp, shotsDone, counts, results, printed, calls>>

Abort(kind, detail) ==
  /\ raised' = [kind |-> kind, detail |-> detail]
  /\ err' = raised'
  /\ pc' = OnRaise(pc)

(* allocate(n, reg)                                                    *)
Allocate ==
  /\ pc = "main_allocate"
  /\ regLen' = p.n
  /\ pc' = "main_body"
  /\ UNCHANGED <<p, pass, index, cnt, stmt, ops, subseqs, model, artifacts,
                 raised, err>>
  /\ UNCHANGED execVars

(* create_bell_state(reg)                                              *)
CallCreateBellState ==
  /\ pc = "main_body"
  /\ p.ex = "bell"
  /\ stmt' = 1
  /\ pc' = "create_bell_state"
  /\ UNCHANGED <<p, pass, regLen, index, cnt, ops, subseqs, model, artifacts,
                 raised, err>>
  /\ UNCHANGED execVars

(* One statement of create_bell_state: a gate on positions of reg.     *)
ApplyGateCall ==
  /\ pc = "create_bell_state"
  /\ stmt <= Len(create_bell_state)
  /\ LET g == create_bell_state[stmt] IN
       IF AllInRange(g.q, regLen)
         THEN /\ ops' = Append(ops, g)
              /\ stmt' = stmt + 1
              /\ UNCHANGED <<pc, raised, err>>
         ELSE /\ Abort("OutOfRange", "index")
              /\ UNCHANGED <<ops, stmt>>
  /\ UNCHANGED <<p, pass, regLen, index, cnt, subseqs, model, artifacts>>
  /\ UNCHANGED execVars

ReturnCreateBellState ==
  /\ pc = "create_bell_state"
  /\ stmt > Len(create_bell_state)
  /\ pc' = "model_ready"
  /\ UNCHANGED <<p, pass, model, artifacts, raised, err>>
  /\ UNCHANGED buildVars
  /\ UNCHANGED execVars

(* repeat(count=x.len, iteration=...): the count is evaluated.         *)
RepeatStart ==
  /\ pc = "main_body"
  /\ p.ex = "parity"
  /\ cnt' = RepeatCount(p, regLen)
  /\ index' = 0
  /\ pc' = "repeat"
  /\ UNCHANGED <<p, pass, regLen, stmt, ops, subseqs, model, artifacts,
                 raised, err>>
  /\ UNCHANGED execVars

(* One iteration: apply_condition(index, x[index]).                    *)
RepeatIteration ==
  /\ pc = "repeat"
  /\ RepeatContinues(index, cnt)
  /\ LET qubit == IterationQubit(p, index) IN
       IF InRange(qubit, regLen)
         THEN LET sub == apply_condition(p, index, qubit) IN
              /\ ops' = ops \o sub
              /\ subseqs' = Append(subseqs, sub)
              /\ index' = index + 1
              /\ UNCHANGED <<pc, raised, err>>
         ELSE /\ Abort("OutOfRange", "index")
              /\ UNCHANGED <<ops, subseqs, index>>
  /\ UNCHANGED <<p, pass, regLen, cnt, stmt, model, artifacts>>
  /\ UNCHANGED execVars

RepeatExit ==
  /\ pc = "repeat"
  /\ ~RepeatContinues(index, cnt)
  /\ pc' = "model_ready"
  /\ UNCHANGED <<p, pass, model, artifacts, raised, err>>
  /\ UNCHANGED buildVars
  /\ UNCHANGED execVars

(* create_model returns the Model.                                     *)
CreateModel ==
  /\ pc = "model_ready"
  /\ model' = [built |-> TRUE, ops |-> ops, n |-> regLen]
  /\ pc' = IF p.ex = "bell" \/ pass = 2 THEN "write_qmod" ELSE "synthesize"
  /\ UNCHANGED <<p, pass, artifacts, raised, err>>
  /\ UNCHANGED buildVars
  /\ UNCHANGED execVars

(* write_qmod(model, name)                                             *)
WriteQmod ==
  /\ pc = "write_qmod"
  /\ artifacts' = artifacts \cup {ArtifactName(p)}
  /\ pc' = IF p.ex = "bell" THEN "synthesize" ELSE "done"
  /\ UNCHANGED <<p, pass, model, raised, err>>
  /\ UNCHANGED buildVars
  /\ UNCHANGED execVars

(* synthesize(model): one round trip; a program handle or an error.    *)
Synthesize ==
  /\ pc = "synthesize"
  /\ calls' = [calls EXCEPT !.synth = @ + 1]
  /\ \/ /\ qprog' = [ok |-> TRUE, gates |-> model.ops, n |-> model.n]
        /\ pc' = "show"
        /\ UNCHANGED <<raised, err>>
     \/ /\ \E d \in SynthesisFailures : Abort("SynthesisError", d)
        /\ UNCHANGED qprog
  /\ UNCHANGED <<p, pass, model, artifacts, psi, gp, shotsDone, counts,
                 results, printed>>
  /\ UNCHANGED buildVars

(* show(quantum_program)                                               *)
Show ==
  /\ pc = "show"
  /\ pc' = IF p.ex = "bell" THEN "prepare" ELSE "execute"
  /\ UNCHANGED <<p, pass, model, artifacts, raised, err>>
  /\ UNCHANGED buildVars
  /\ UNCHANGED execVars

(* execute(quantum_program): one round trip; results or an error.      *)
Execute ==
  /\ pc = "execute"
  /\ calls' = [calls EXCEPT !.exec = @ + 1]
  /\ \/ /\ pc' = "prepare"
        /\ UNCHANGED <<raised, err>>
     \/ \E d \in ExecutionFailures : Abort("ExecutionError", d)
  /\ UNCHANGED <<p, pass, model, artifacts, qprog, psi, gp, shotsDone,
                 counts, results, printed>>
  /\ UNCHANGED buildVars

(* The allocated register starts in the state of all zeros.            *)
Prepare ==
  /\ pc = "prepare"
  /\ psi' = ZeroState(qprog.n)
  /\ gp' = 1
  /\ pc' = "evolve"
  /\ UNCHANGED <<p, pass, model, artifacts, qprog, shotsDone, counts,
                 results, printed, calls, raised, err>>
  /\ UNCHANGED buildVars

(* The next gate of the program acts on the state.                     *)
Evolve ==
  /\ pc = "evolve"
  /\ gp <= Len(qprog.gates)
  /\ psi' = ApplyGate(qprog.gates[gp], psi)
  /\ gp' = gp + 1
  /\ UNCHANGED <<p, pc, pass, model, artifacts, qprog, shotsDone, counts,
                 results, printed, calls, raised, err>>
  /\ UNCHANGED buildVars

EvolveDone ==
  /\ pc = "evolve"
  /\ gp > Len(qprog.gates)
  /\ pc' = IF p.ex = "bell" THEN "done" ELSE "shots"
  /\ UNCHANGED <<p, pass, model, artifacts, raised, err>>
  /\ UNCHANGED buildVars
  /\ UNCHANGED execVars

(* One shot: one basis state of the final state is measured.           *)
Shot ==
  /\ pc = "shots"
  /\ shotsDone < p.shots
  /\ \E t \in psi : counts' = Tally(counts, BitString(t.b, qprog.n))
  /\ shotsDone' = shotsDone + 1
  /\ UNCHANGED <<p, pc, pass, model, artifacts, qprog, psi, gp, results,
                 printed, calls, raised, err>>
  /\ UNCHANGED buildVars

(* .result()[0].value                                                  *)
Result ==
  /\ pc = "shots"
  /\ shotsDone >= p.shots
  /\ results' = [ready |-> TRUE, counts |-> counts]
  /\ pc' = "print"
  /\ UNCHANGED <<p, pass, model, artifacts, qprog, psi, gp, shotsDone,
                 counts, printed, calls, raised, err>>
  /\ UNCHANGED buildVars

(* print(results.counts)                                               *)
PrintCounts ==
  /\ pc = "print"
  /\ printed' = results.counts
  /\ pc' = "rebuild"
  /\ UNCHANGED <<p, pass, model, artifacts, qprog, psi, gp, shotsDone,
                 counts, results, calls, raised, err>>
  /\ UNCHANGED buildVars

(* write_qmod(create_model(main), ...): main is built a second time.   *)
Rebuild ==
  /\ pc = "rebuild"
  /\ pass' = 2
  /\ regLen' = 0
  /\ index' = 0
  /\ cnt' = 0
  /\ stmt' = 1
  /\ ops' = <<>>
  /\ subseqs' = <<>>
  /\ pc' = "main_allocate"
  /\ UNCHANGED <<p, model, artifacts, raised, err>>
  /\ UNCHANGED execVars

Next == Allocate \/ CallCreateBellState \/ ApplyGateCall
          \/ ReturnCreateBellState \/ RepeatStart \/ RepeatIteration
          \/ RepeatExit \/ CreateModel \/ WriteQmod \/ Synthesize \/ Show
          \/ Execute \/ Prepare \/ Evolve \/ EvolveDone \/ Shot \/ Result
          \/ PrintCounts \/ Rebuild

(* ------------------------------------------------------------------ *)
(* Properties.                                                         *)
(* ------------------------------------------------------------------ *)
(* The concatenation of a sequence of sequences.                      *)
RECURSIVE Flatten(_)
Flatten(ss) == IF ss = <<>> THEN <<>> ELSE Head(ss) \o Flatten(Tail(ss))

(* The total of a set of counts.                                      *)
RECURSIVE SumCounts(_)
SumCounts(cs) ==
  IF cs = {} THEN 0
  ELSE LET c == CHOOSE x \in cs : TRUE IN c.n + SumCounts(cs \ {c})

Building == pc \in {"main_allocate", "main_body", "create_bell_state",
                    "repeat", "model_ready"}

(* C1: the entangling example lowers to exactly two records, H on     *)
(* index 0 then CX with control 0 and target 1; neither allocate nor   *)
(* the call of create_bell_state adds a record.                        *)
C1_BellTwoRecords ==
  p.ex = "bell" =>
    /\ pc = "main_body" => ops = <<>>
    /\ (pc = "create_bell_state" /\ stmt = 1) => ops = <<>>
    /\ model.built =>
         /\ Len(model.ops) = 2
         /\ model.ops[1] = [gate |-> "H", q |-> <<0>>]
         /\ model.ops[2] = [gate |-> "CX", q |-> <<0, 1>>]

C1_Witness == p.ex = "bell" /\ model.built /\ pc = "done"

(* C2: the alternating-parity example lowers to exactly 5 X records    *)
(* whose targets are exactly 0, 2, 4, 6, 8, each once.                 *)
C2_ParityFiveFlips ==
  (p.ex = "parity" /\ model.built) =>
    /\ Len(model.ops) = 5
    /\ \A k \in 1..Len(model.ops) :
         model.ops[k].gate = "X" /\ Len(model.ops[k].q) = 1
    /\ {model.ops[k].q[1] : k \in 1..Len(model.ops)} = {0, 2, 4, 6, 8}
    /\ \A j, k \in 1..Len(model.ops) :
         model.ops[j].q = model.ops[k].q => j = k

C2_Witness == p.ex = "parity" /\ model.built /\ pc = "synthesize"

(* C3: executing the alternating-parity program gives the single       *)
(* bit-string 0101010101 with all 2048 shots; read from the right,     *)
(* qubit k is 1 iff k is even.                                         *)
C3_ParityCounts ==
  p.ex = "parity" =>
    /\ results.ready =>
         /\ results.counts =
              {[bits |-> <<0, 1, 0, 1, 0, 1, 0, 1, 0, 1>>, n |-> 2048]}
         /\ \A c \in results.counts : \A k \in 0..9 :
              c.bits[10 - k] = 1 <=> k % 2 = 0
    /\ pc \in {"rebuild", "done"} => printed = results.counts /\ results.ready

C3_Witness == p.ex = "parity" /\ pc = "done" /\ printed # {}

(* The positions the next statement of the builder refers to.          *)
ReferencedNext ==
  IF pc = "create_bell_state" /\ stmt <= Len(create_bell_state)
    THEN {create_bell_state[stmt].q[k] :
            k \in 1..Len(create_bell_state[stmt].q)}
    ELSE IF pc = "repeat" /\ index < cnt THEN {index + p.off} ELSE {}

RecordsInBounds(seq, len) ==
  \A k \in 1..Len(seq) : \A j \in 1..Len(seq[k].q) : seq[k].q[j] \in 0..(len - 1)

(* C4: after allocate(n, r) exactly the indices 0..n-1 are usable: a   *)
(* gate on any other index fails with OutOfRange at build time, ends   *)
(* the construction and appends no record; a gate on indices in range  *)
(* does not fail.                                                      *)
C4_OutOfRange ==
  /\ [](RecordsInBounds(ops, regLen) /\ RecordsInBounds(model.ops, model.n))
  /\ [][ReferencedNext # {} =>
          IF ReferencedNext \subseteq 0..(regLen - 1)
            THEN pc' # "aborted" /\ err' = NoError /\ Len(ops') >= Len(ops)
            ELSE /\ pc' = "aborted"
                 /\ err'.kind = "OutOfRange"
                 /\ ops' = ops
                 /\ subseqs' = subseqs
                 /\ model' = NoModel]_vars
  /\ [][pc = "aborted" => FALSE]_vars

C4_Witness ==
  /\ err.kind = "OutOfRange"
  /\ regLen > 0
  /\ index + p.off = regLen
  /\ ops # <<>>

(* C5: repeat(count, body) appends exactly count sub-sequences, for    *)
(* index 0..count-1 in increasing order, the i-th being what the body  *)
(* gives when called with index i.                                     *)
C5_Repeat ==
  p.ex = "parity" =>
    /\ pc = "repeat" =>
         /\ Len(subseqs) = index
         /\ index <= cnt
    /\ pc = "model_ready" =>
         /\ cnt = (IF p.cntLen THEN regLen ELSE p.cnt)
         /\ Len(subseqs) = cnt
    /\ pc \in {"repeat", "model_ready"} =>
         /\ \A i \in 0..(Len(subseqs) - 1) :
              subseqs[i + 1] = apply_condition(p, i, i + p.off)
         /\ ops = Flatten(subseqs)

C5_Witness ==
  /\ p.ex = "parity"
  /\ pc = "model_ready"
  /\ cnt >= 3
  /\ subseqs[1] # <<>>
  /\ subseqs[2] = <<>>
  /\ subseqs[3] # <<>>

(* C6: if_ includes the then-block's operations iff the condition is   *)
(* true on the classical inputs at lowering time; a false condition    *)
(* contributes nothing; the quantum state plays no part: none exists   *)
(* at the first build, and the second build, made after the execution, *)
(* gives the same records.                                             *)
C6_Conditional ==
  /\ \A i \in 0..(Len(subseqs) - 1) :
       /\ (i % p.m = p.r) =>
            subseqs[i + 1] =
              [k \in 1..Len(p.then) |-> [gate |-> p.then[k], q |-> <<i + p.off>>]]
       /\ (i % p.m # p.r) => subseqs[i + 1] = <<>>
  /\ p.ex = "parity" /\ pc \in {"repeat", "model_ready"} =>
       \A k \in 1..Len(ops) : \E i \in 0..(Len(subseqs) - 1) :
          i % p.m = p.r /\ ops[k].q = <<i + p.off>>
  /\ (Building /\ pass = 1) => psi = {}
  /\ (pass = 2 /\ pc \in {"write_qmod", "done"}) => model.ops = qprog.gates

C6_Witness ==
  /\ p.ex = "parity"
  /\ pass = 2
  /\ pc = "done"
  /\ Cardinality(psi) > 1
  /\ \E i, j \in 1..Len(subseqs) : subseqs[i] = <<>> /\ subseqs[j] # <<>>

(* C7: the counts of an Execution Result are non-negative integers     *)
(* that sum to the number of shots.                                    *)
C7_CountsSum ==
  /\ pc = "shots" => SumCounts(counts) = shotsDone /\ shotsDone <= p.shots
  /\ results.ready =>
       /\ SumCounts(results.counts) = p.shots
       /\ \A c \in results.counts : c.n \in Nat
       /\ \A c, d \in results.counts : c.bits = d.bits => c = d

C7_Witness ==
  /\ results.ready
  /\ \E c \in results.counts : c.n >= 2

(* C9: an error ends the call it occurs in and reaches the caller as   *)
(* raised; no call is made twice; a failed call leaves no Model, no    *)
(* program handle, no Execution Result; execute is never called        *)
(* without a synthesized program.                                      *)
C9_ErrorsAbort ==
  /\ err = raised
  /\ calls.synth <= 1 /\ calls.exec <= 1
  /\ (err # NoError) <=> (pc = "aborted")
  /\ calls.exec > 0 => qprog.ok
  /\ calls.synth > 0 => model.built
  /\ err.kind = "OutOfRange" =>
       ~model.built /\ ~qprog.ok /\ ~results.ready
         /\ calls = [synth |-> 0, exec |-> 0]
  /\ err.kind = "SynthesisError" =>
       /\ err.detail \in SynthesisFailures
       /\ ~qprog.ok /\ ~results.ready
       /\ calls = [synth |-> 1, exec |-> 0]
       /\ psi = {} /\ shotsDone = 0
  /\ err.kind = "ExecutionError" =>
       /\ err.detail \in ExecutionFailures
       /\ ~results.ready /\ printed = {} /\ counts = {}
       /\ calls = [synth |-> 1, exec |-> 1]
       /\ shotsDone = 0

C9_Witness ==
  /\ pc = "aborted"
  /\ err.kind = "SynthesisError"
  /\ model.built
  /\ p.ex = "parity"

(* C10: from the all-zero 2-qubit register, H on qubit 0 then CX       *)
(* (control 0, target 1) gives the Bell state: exactly 00 and 11 can   *)
(* be measured; CX inverts the target only when the control is 1 and   *)
(* leaves the control as it is.                                        *)
C10_BellState ==
  (p.ex = "bell" /\ pc \in {"evolve", "done"}) =>
    /\ gp = 1 => Support(psi, 2) = {<<0, 0>>}
    /\ gp = 2 => Support(psi, 2) = {<<0, 0>>, <<0, 1>>}
    /\ gp = 2 =>
         \A t \in psi : \E u \in ApplyCX(psi, 0, 1) :
            /\ u.b[0] = t.b[0]
            /\ u.b[1] = (IF t.b[0] = 1 THEN 1 - t.b[1] ELSE t.b[1])
            /\ u.a = t.a
    /\ gp = 3 =>
         /\ Support(psi, 2) = {<<0, 0>>, <<1, 1>>}
         /\ \A s \in Support(psi, 2) : s[1] = s[2]
         /\ \A t, u \in psi : t.a = u.a

C10_Witness == p.ex = "bell" /\ pc = "done" /\ Cardinality(psi) = 2

Spec == Init /\ [][Next]_vars

SpecGen == InitGen /\ [][Next]_vars
====
